---- MODULE Spec2Model ----
(***************************************************************************)
(* The subtitle cleaning engine of fix_cc.py: the pattern library, the     *)
(* structure analysis of a caption, the cleaning pipeline                  *)
(* (TextCleaner.clean_subtitle) and the parser of the subtitle file        *)
(* (SubtitleCleaner.parse_subtitles).                                      *)
(*                                                                         *)
(* Spec follows one caption through its construction, its cleaning and     *)
(* what the session does with the result; UnitSpec calls the static        *)
(* methods of TextCleaner directly; ParseSpec runs the loop of the parser  *)
(* over a file; SessionSpec runs process_interactively over the parsed     *)
(* captions, up to what apply_changes writes; StreamSpec calls the stream  *)
(* selection of extract_srt.py and of track_filter.py on what ffprobe      *)
(* lists.                                                                  *)
(*                                                                         *)
(* A Python str is a sequence of one-character strings; the characters     *)
(* outside ASCII are written as the atoms EN_DASH, EM_DASH and MUSIC.      *)
(* Objects live in a heap, so that copying, aliasing and field assignment  *)
(* mean what they mean in Python.                                          *)
(***************************************************************************)
EXTENDS Integers, Sequences, FiniteSets, TLC

VARIABLES
    heap,       \* the Subtitle, list and SubtitleStructure objects
    subtitle,   \* address of the caption given to clean_subtitle
    cleaned,    \* address of the caption clean_subtitle(subtitle) returned; 0: none yet
    recleaned,  \* address of the caption clean_subtitle(cleaned) returned; 0: none yet
    frame,      \* the locals of the last clean_subtitle call
    edited,     \* address of the caption a manual edit made; 0: none yet
    before,     \* the caption given, as it was when it was constructed
    given_lines, \* the lines argument the caption was constructed with
    pc,         \* "constructed", "cleaned", "recleaned", "modified", "edited";
                \* "idle": no caption is followed
    parser,     \* the SubtitleCleaner and the locals of its parse_subtitles
    unit,       \* a direct call of a static method or of a stream selection
    session     \* the SubtitleCleaner in process_interactively, and the file

vars ==
    <<heap, subtitle, cleaned, recleaned, edited, frame, before, given_lines, pc,
      parser, unit, session>>

---------------------------------------------------------------------------
(* Characters *)

HYPHEN == "-"
EN_DASH == "<en-dash>"
EM_DASH == "<em-dash>"
MUSIC == "<music>"
NL == "\n"
CR == "\r"

\* \s of the regular expressions, and what str.strip() removes
Whitespace == {" ", "\t", NL, CR}

Min(S) == CHOOSE m \in S : \A n \in S : m <= n
Max(S) == CHOOSE m \in S : \A n \in S : m >= n

\* the characters of s at the positions in K, in order
KeepAt(s, K) ==
    LET F[i \in 0..Len(s)] ==
            IF i = 0 THEN <<>>
            ELSE IF i \in K THEN Append(F[i - 1], s[i]) ELSE F[i - 1]
    IN F[Len(s)]

strip(s) ==
    LET solid == {i \in 1..Len(s) : s[i] \notin Whitespace}
    IN IF solid = {} THEN <<>> ELSE SubSeq(s, Min(solid), Max(solid))

RECURSIVE split(_)
split(text) ==
    LET breaks == {i \in 1..Len(text) : text[i] = NL}
    IN IF breaks = {} THEN <<text>>
       ELSE <<SubSeq(text, 1, Min(breaks) - 1)>>
                \o split(SubSeq(text, Min(breaks) + 1, Len(text)))

RECURSIVE join(_)
join(lines) ==
    IF lines = <<>> THEN <<>>
    ELSE IF Len(lines) = 1 THEN lines[1]
    ELSE lines[1] \o <<NL>> \o join(Tail(lines))

---------------------------------------------------------------------------
(* RegexPatterns *)

\* pattern.sub('', text) of open [^close]* close: leftmost matches, each
\* from an opening character to the nearest closing character after it
RECURSIVE SpanSubFrom(_, _, _, _)
SpanSubFrom(text, open, close, i) ==
    IF i > Len(text) THEN <<>>
    ELSE LET ends == {j \in (i + 1)..Len(text) : text[j] = close}
         IN IF text[i] = open /\ ends # {}
            THEN SpanSubFrom(text, open, close, Min(ends) + 1)
            ELSE <<text[i]>> \o SpanSubFrom(text, open, close, i + 1)

SpanSearch(text, open, close) ==
    \E i \in 1..Len(text) : \E j \in (i + 1)..Len(text) :
        text[i] = open /\ text[j] = close

PARENTHESES_search(text) == SpanSearch(text, "(", ")")
BRACKETS_search(text) == SpanSearch(text, "[", "]")
CURLY_BRACKETS_search(text) == SpanSearch(text, "{", "}")
HASH_search(text) == SpanSearch(text, "#", "#")

\* SPEAKER = ^\s*([^:\n]+?)\s*: matches when the first colon has before it a
\* run of one or more characters other than a line break, with nothing but
\* whitespace around the run; the match ends at that colon. 0: no match.
SPEAKER_end(text) ==
    LET colons == {i \in 1..Len(text) : text[i] = ":"}
        first == Min(colons)
        solid == {i \in 1..(first - 1) : text[i] \notin Whitespace}
    IN IF colons = {} THEN 0
       ELSE IF solid = {}
            THEN IF \E i \in 1..(first - 1) : text[i] # NL THEN first ELSE 0
       ELSE IF \A i \in Min(solid)..Max(solid) : text[i] # NL THEN first
       ELSE 0

SPEAKER_match(text) == SPEAKER_end(text) > 0

\* a greedy group: the label runs to the last colon of the text
SPEAKER_group_greedy(text) ==
    strip(SubSeq(text, 1, Max({i \in 1..Len(text) : text[i] = ":"}) - 1))

\* group(1).strip() of a match: the lazy group runs from the first character
\* after the leading whitespace to the last one before the trailing whitespace
SPEAKER_group(text) == strip(SubSeq(text, 1, SPEAKER_end(text) - 1))

Dashes == {HYPHEN, EN_DASH, EM_DASH}

\* the pattern without its anchor: a dash anywhere in the text
LEADING_DASHES_search(text) == \E i \in 1..Len(text) : text[i] \in Dashes

LEADING_DASHES_match(text) == text # <<>> /\ text[1] \in Dashes

LEADING_DASHES_sub(text) ==
    IF LEADING_DASHES_match(text) THEN Tail(text) ELSE text

\* MULTIPLE_SPACES.sub(' ', line)
MULTIPLE_SPACES_sub(line) ==
    LET F[i \in 0..Len(line)] ==
            IF i = 0 THEN <<>>
            ELSE IF line[i] \notin Whitespace THEN Append(F[i - 1], line[i])
            ELSE IF i > 1 /\ line[i - 1] \in Whitespace THEN F[i - 1]
            ELSE Append(F[i - 1], " ")
    IN F[Len(line)]

\* re.sub(r'([\-\–\—])\s+', r'\1', line)
DashSpaceSub(line) ==
    KeepAt(line, {i \in 1..Len(line) :
        ~(/\ line[i] \in Whitespace
          /\ \E j \in 1..(i - 1) :
                /\ line[j] \in Dashes
                /\ \A k \in (j + 1)..i : line[k] \in Whitespace)})

Punctuation == {".", ",", "!", "?", ";", ":"}

\* SPACES_BEFORE_PUNCTUATION.sub(r'\1', line)
SPACES_BEFORE_PUNCTUATION_sub(line) ==
    KeepAt(line, {i \in 1..Len(line) :
        ~(/\ line[i] \in Whitespace
          /\ \E j \in (i + 1)..Len(line) :
                /\ line[j] \in Punctuation
                /\ \A k \in i..(j - 1) : line[k] \in Whitespace)})

---------------------------------------------------------------------------
(* TextCleaner: the per-line cleaners *)

_remove_parentheses_content(text) == SpanSubFrom(text, "(", ")", 1)
_remove_bracket_content(text) == SpanSubFrom(text, "[", "]", 1)
_remove_curly_bracket_content(text) == SpanSubFrom(text, "{", "}", 1)
_remove_hash_symbol_content(text) == SpanSubFrom(text, "#", "#", 1)

\* text.replace('♪', '', 1): the first glyph only
_remove_music_indication_once(text) ==
    LET glyphs == {i \in 1..Len(text) : text[i] = MUSIC}
    IN IF glyphs = {} THEN text
       ELSE KeepAt(text, (1..Len(text)) \ {Min(glyphs)})

\* text.replace('♪', '')
_remove_music_indication(text) == SelectSeq(text, LAMBDA ch : ch # MUSIC)

\* a greedy pattern: the label runs to the last colon of the line
_remove_speaker_identification_greedy(text) ==
    LET colons == {i \in 1..Len(text) : text[i] = ":"}
    IN IF SPEAKER_end(text) = 0 THEN text
       ELSE SubSeq(text, Max(colons) + 1, Len(text))

_remove_speaker_identification(text) ==
    SubSeq(text, SPEAKER_end(text) + 1, Len(text))

_clean_speaker_name(raw_name) ==
    strip(_remove_music_indication(
          _remove_hash_symbol_content(
          _remove_curly_bracket_content(
          _remove_bracket_content(
          _remove_parentheses_content(raw_name))))))

_clean_line(line) ==
    strip(_remove_speaker_identification(
          _remove_music_indication(
          _remove_hash_symbol_content(
          _remove_curly_bracket_content(
          _remove_bracket_content(
          _remove_parentheses_content(line)))))))

---------------------------------------------------------------------------
(* Subtitle and SubtitleStructure *)

\* the SubtitleStructure that Subtitle._analyze_structure fills in
_analyze_structure(lines) ==
    LET stripped == [i \in 1..Len(lines) |-> strip(lines[i])]
        some(P(_)) == \E i \in 1..Len(lines) : P(stripped[i])
    IN [speakers |->
            {_clean_speaker_name(SPEAKER_group(stripped[i])) :
                i \in {k \in 1..Len(lines) : SPEAKER_match(stripped[k])}}
            \ {<<>>},
        has_dashes |-> some(LEADING_DASHES_match),
        has_parentheses |-> some(PARENTHESES_search),
        has_brackets |-> some(BRACKETS_search),
        has_curly_brackets |-> some(CURLY_BRACKETS_search),
        has_hash_content |-> some(HASH_search),
        has_music |-> some(LAMBDA l : MUSIC \in {l[i] : i \in 1..Len(l)}),
        line_count |-> Len(lines)]

speaker_count(structure) == Cardinality(structure.speakers)

\* Subtitle(number, start_time, end_time, text, lines=lines) after __post_init__
Subtitle(number, start_time, end_time, text, lines) ==
    LET own == IF lines = <<>> THEN split(text) ELSE lines
    IN [number |-> number,
        start_time |-> start_time,
        end_time |-> end_time,
        text |-> text,
        original_text |-> text,
        lines |-> own,
        structure |-> _analyze_structure(own)]

---------------------------------------------------------------------------
(* TextCleaner: formatting and final cleanup *)

\* speaker_count > 0 in place of speaker_count > 1
should_format_any_speaker(structure, cleaned_lines) ==
    \/ Cardinality(structure.speakers) > 0
    \/ structure.has_dashes
    \/ \E i \in 1..Len(cleaned_lines) :
            /\ strip(cleaned_lines[i]) # <<>>
            /\ LEADING_DASHES_match(strip(cleaned_lines[i]))

\* should_format of _format_structure
should_format(structure, cleaned_lines) ==
    \/ speaker_count(structure) > 1
    \/ structure.has_dashes
    \/ \E i \in 1..Len(cleaned_lines) :
            /\ strip(cleaned_lines[i]) # <<>>
            /\ LEADING_DASHES_match(strip(cleaned_lines[i]))

\* the hyphen is prefixed without removing the dash already there
format_line_keep_dash(line) ==
    IF strip(line) = <<>> THEN <<>> ELSE <<HYPHEN>> \o strip(line)

\* one turn of the loop that builds formatted_lines
format_line(line) ==
    LET stripped == strip(line)
        rest == LEADING_DASHES_sub(stripped)
    IN IF stripped = <<>> THEN <<>>
       ELSE IF rest # <<>> THEN <<HYPHEN>> \o rest
       ELSE stripped

_format_structure(structure, cleaned_text) ==
    IF strip(cleaned_text) = <<>> THEN cleaned_text
    ELSE LET cleaned_lines == split(cleaned_text)
         IN IF ~should_format(structure, cleaned_lines) THEN cleaned_text
            ELSE join([i \in 1..Len(cleaned_lines) |-> format_line(cleaned_lines[i])])

\* the loop without the substitution of a dash followed by whitespace
cleanup_line_keep_dash_space(line) ==
    SPACES_BEFORE_PUNCTUATION_sub(strip(MULTIPLE_SPACES_sub(line)))

\* one turn of the loop of _final_cleanup, before the emptiness test
cleanup_line(line) ==
    SPACES_BEFORE_PUNCTUATION_sub(DashSpaceSub(strip(MULTIPLE_SPACES_sub(line))))

\* the joined lines with a line break after the last one
_final_cleanup_trailing_break(text) ==
    LET lines == split(text)
    IN join(SelectSeq([i \in 1..Len(lines) |-> cleanup_line(lines[i])],
                      LAMBDA line : line # <<>>)) \o <<NL>>

_final_cleanup(text) ==
    LET lines == split(text)
    IN join(SelectSeq([i \in 1..Len(lines) |-> cleanup_line(lines[i])],
                      LAMBDA line : line # <<>>))

---------------------------------------------------------------------------
(* Objects *)

\* the Subtitle at address a with the list and the structure it refers to
deref(h, a) ==
    [h.subtitles[a] EXCEPT !.lines = h.lists[@], !.structure = h.structures[@]]

\* a new Subtitle object with a list and a structure of its own
new_object(h, value) ==
    [heap |->
        [subtitles |-> Append(h.subtitles,
                          [value EXCEPT !.lines = Len(h.lists) + 1,
                                        !.structure = Len(h.structures) + 1]),
         lists |-> Append(h.lists, value.lines),
         structures |-> Append(h.structures, value.structure)],
     addr |-> Len(h.subtitles) + 1]

\* cleaned_subtitle = subtitle: no copy at all
alias_copy(h, a) == [heap |-> h, addr |-> a]

\* a copy built with the constructor, Subtitle(number=..., text=..., lines=...),
\* which takes original_text and the structure from the text as it is now
constructed_copy(h, a) ==
    LET v == deref(h, a)
    IN new_object(h, Subtitle(v.number, v.start_time, v.end_time, v.text, v.lines))

\* copy.deepcopy(subtitle)
deepcopy(h, a) == new_object(h, deref(h, a))

\* s.text = text alone: the lines are left as they were
assign_text_only(h, a, text) == [h EXCEPT !.subtitles[a].text = text]

\* the two assignments  s.text = text; s.lines = text.split('\n')  to the
\* Subtitle at address a: the second binds the field to a new list
assign_text(h, a, text) ==
    [h EXCEPT !.subtitles[a].text = text,
              !.subtitles[a].lines = Len(h.lists) + 1,
              !.lists = Append(@, split(text))]

\* TextCleaner.clean_subtitle(subtitle) for the Subtitle at address src:
\* the heap after the call, the address returned and the locals of the call
clean_subtitle(h, src) ==
    LET copy == deepcopy(h, src)
        lines == h.lists[h.subtitles[src].lines]
        structure == h.structures[h.subtitles[src].structure]
        cleaned_lines ==
            SelectSeq([i \in 1..Len(lines) |-> _clean_line(lines[i])],
                      LAMBDA cleaned_line : strip(cleaned_line) # <<>>)
        joined == join(cleaned_lines)
        formatted == _format_structure(structure, joined)
        cleaned_text == _final_cleanup(formatted)
    IN [heap |-> assign_text(copy.heap, copy.addr, cleaned_text),
        addr |-> copy.addr,
        frame |-> [cleaned_lines |-> cleaned_lines,
                   joined |-> joined,
                   formatted |-> formatted]]

---------------------------------------------------------------------------
(* The captions given to clean_subtitle *)

\* the longest line of a caption
MaxLen == 3

Strings(A, n) == UNION {[1..k -> A] : k \in 0..n}

\* the characters the patterns tell apart, and two letters
Characters ==
    {"a", "b", "A", " ", "\t", ":", ".", ",", HYPHEN, EN_DASH, EM_DASH,
     "(", ")", "[", "]", "{", "}", "#", MUSIC}

\* the characters of the captions of two lines
PairAlphabets ==
    {{"a", "b", ":", " "},
     {"a", ":", HYPHEN, " "},
     {"a", HYPHEN, EN_DASH, "."},
     {"a", ":", "(", ")"},
     {"a", "A", ":"}}

\* the lines argument of Subtitle(...): none, one line, or two lines
GivenLines ==
    {<<>>}
    \cup {<<line>> : line \in Strings(Characters, MaxLen)}
    \cup UNION {[1..2 -> Strings(A, MaxLen)] : A \in PairAlphabets}

\* what the user types at "Enter new text: "
Typed == {<<"b">>, <<" ", HYPHEN, " ", "a">>, <<" ">>}

\* caption numbers
Numbers == {1, 2}

NoFrame == [cleaned_lines |-> <<>>, joined |-> <<>>, formatted |-> <<>>]

EmptyHeap == [subtitles |-> <<>>, lists |-> <<>>, structures |-> <<>>]

\* no file is being parsed, and no static method is being called directly
NoParser == [state |-> "idle"]
NoCall == [fn |-> "none"]
NoSession == [state |-> "idle"]

\* parse_subtitles builds each caption as Subtitle(number=..., text=
\* '\n'.join(lines), lines=lines.copy()); so do the tests
Init ==
    \E lines \in GivenLines :
        LET made == new_object(EmptyHeap,
                        Subtitle(1, "00:00:01,000", "00:00:03,000",
                                 join(lines), lines))
        IN /\ heap = made.heap
           /\ subtitle = made.addr
           /\ before = deref(made.heap, made.addr)
           /\ given_lines = lines
           /\ cleaned = 0
           /\ recleaned = 0
           /\ edited = 0
           /\ frame = NoFrame
           /\ pc = "constructed"
           /\ parser = NoParser
           /\ unit = NoCall
           /\ session = NoSession

\* process_interactively: cleaned_subtitle = clean_subtitle(subtitle)
Clean ==
    /\ pc = "constructed"
    /\ LET r == clean_subtitle(heap, subtitle)
       IN /\ heap' = r.heap
          /\ cleaned' = r.addr
          /\ frame' = r.frame
    /\ pc' = "cleaned"
    /\ UNCHANGED <<subtitle, before, given_lines, recleaned, edited, parser, unit, session>>

\* a second pass: clean_subtitle applied to the caption it returned
CleanAgain ==
    /\ pc = "cleaned"
    /\ LET r == clean_subtitle(heap, cleaned)
       IN /\ heap' = r.heap
          /\ recleaned' = r.addr
          /\ frame' = r.frame
    /\ pc' = "recleaned"
    /\ UNCHANGED <<subtitle, before, given_lines, cleaned, edited, parser, unit, session>>

\* apply_changes renumbers the captions it writes, the cleaned ones included:
\* subtitle.number = new_number
Renumber ==
    /\ pc = "cleaned"
    /\ \E new_number \in Numbers \ {heap.subtitles[cleaned].number} :
            heap' = [heap EXCEPT !.subtitles[cleaned].number = new_number]
    /\ pc' = "modified"
    /\ UNCHANGED <<subtitle, before, given_lines, cleaned, recleaned, edited, frame,
                   parser, unit, session>>

\* process_interactively, choice '4' on a caption that cleaning changed
ManualEdit ==
    /\ pc = "cleaned"
    /\ heap.subtitles[cleaned].text # heap.subtitles[subtitle].text
    /\ \E typed \in Typed :
        LET new_text == strip(typed)
            new_subtitle == deepcopy(heap, subtitle)
        IN /\ new_text # <<>>
           /\ heap' = assign_text(new_subtitle.heap, new_subtitle.addr, new_text)
           /\ edited' = new_subtitle.addr
    /\ pc' = "edited"
    /\ UNCHANGED <<subtitle, before, given_lines, cleaned, recleaned, frame, parser, unit, session>>

Next == Clean \/ CleanAgain \/ Renumber \/ ManualEdit

Spec == Init /\ [][Next]_vars

---------------------------------------------------------------------------
(* Direct calls of the static methods of TextCleaner, as the unit tests make *)

\* the longest text given to a static method
MaxText == 4

\* whitespace, dashes, punctuation, the colon of a label, a letter, a line break
UnitCharacters == {"a", " ", "\t", ":", ".", HYPHEN, EN_DASH, NL}

UnitTexts == Strings(UnitCharacters, MaxText)

NoSubtitle == [number |-> 0]

\* no caption has been constructed
NoCaption ==
    /\ heap = EmptyHeap
    /\ subtitle = 0
    /\ cleaned = 0
    /\ recleaned = 0
    /\ edited = 0
    /\ frame = NoFrame
    /\ before = NoSubtitle
    /\ given_lines = <<>>
    /\ pc = "idle"

caption_vars ==
    <<heap, subtitle, cleaned, recleaned, edited, frame, before, given_lines, pc>>

UnitInit ==
    /\ \E text \in UnitTexts : unit = [fn |-> "none", arg |-> text, out |-> <<>>]
    /\ NoCaption
    /\ parser = NoParser
    /\ session = NoSession

\* TextCleaner._final_cleanup(text)
Call_final_cleanup ==
    /\ unit.fn = "none"
    /\ unit' = [unit EXCEPT !.fn = "_final_cleanup",
                            !.out = _final_cleanup(unit.arg)]
    /\ UNCHANGED <<caption_vars, parser, session>>

\* TextCleaner._remove_speaker_identification(text)
Call_remove_speaker_identification ==
    /\ unit.fn = "none"
    /\ unit' = [unit EXCEPT !.fn = "_remove_speaker_identification",
                            !.out = _remove_speaker_identification(unit.arg)]
    /\ UNCHANGED <<caption_vars, parser, session>>

UnitNext == Call_final_cleanup \/ Call_remove_speaker_identification

UnitSpec == UnitInit /\ [][UnitNext]_vars

---------------------------------------------------------------------------
(* SubtitleCleaner.parse_subtitles: the string operations *)

SUPERSCRIPT_TWO == "<superscript-two>"
ARROW == <<HYPHEN, HYPHEN, ">">>

\* str.rstrip('\n\r')
rstrip(line) ==
    LET kept == {i \in 1..Len(line) : line[i] \notin {NL, CR}}
    IN IF kept = {} THEN <<>> ELSE SubSeq(line, 1, Max(kept))

DecimalDigits == {"0", "1", "2"}

\* str.isdigit(): true of the decimal digits and of the superscript digits
isdigit(line) ==
    /\ line # <<>>
    /\ \A i \in 1..Len(line) : line[i] \in DecimalDigits \cup {SUPERSCRIPT_TWO}

\* int(line) raises ValueError unless every character is a decimal digit
int_raises(line) == \E i \in 1..Len(line) : line[i] \notin DecimalDigits

digit(ch) == CASE ch = "0" -> 0 [] ch = "1" -> 1 [] ch = "2" -> 2

RECURSIVE int(_)
int(line) ==
    IF line = <<>> THEN 0
    ELSE 10 * int(SubSeq(line, 1, Len(line) - 1)) + digit(line[Len(line)])

\* the places of '-->' in the line
arrows(line) == {i \in 1..(Len(line) - 2) : SubSeq(line, i, i + 2) = ARROW}

\* line.split('-->')
RECURSIVE split_arrow(_)
split_arrow(line) ==
    IF arrows(line) = {} THEN <<line>>
    ELSE <<SubSeq(line, 1, Min(arrows(line)) - 1)>>
            \o split_arrow(SubSeq(line, Min(arrows(line)) + 3, Len(line)))


---------------------------------------------------------------------------
(* SubtitleCleaner.parse_subtitles: the loop *)

\* the most lines of a file
MaxFile == 5

\* the lines readlines() returns: blank, whitespace only (from a file with
\* carriage returns), numbers, a superscript, text, and lines with arrows
FileLines ==
    {<<NL>>,
     <<" ", CR, NL>>,
     <<"1", NL>>,
     <<"1", "2", NL>>,
     <<SUPERSCRIPT_TWO, NL>>,
     <<"a", NL>>,
     <<"b", NL>>,
     <<"a", " ">> \o ARROW \o <<" ", "b", NL>>,
     <<"a">> \o ARROW \o <<"b">> \o ARROW \o <<"a", NL>>}

\* the lines of the files of MaxFile + 1 lines: two whole blocks fit in them
BlockLines ==
    {<<NL>>,
     <<"1", NL>>,
     <<"1", "2", NL>>,
     <<"b", NL>>,
     <<"a", " ">> \o ARROW \o <<" ", "b", NL>>}

Files ==
    UNION {[1..n -> FileLines] : n \in 0..MaxFile}
    \cup [1..(MaxFile + 1) -> BlockLines]

\* the locals of parse_subtitles that a step can change, the number of
\* captions appended so far, and the line the step read (0-based; -1: none)
Locals(p, read) ==
    [current_number |-> p.current_number,
     current_start |-> p.current_start,
     current_end |-> p.current_end,
     current_text_lines |-> p.current_text_lines,
     appended |-> Len(p.subtitles),
     read |-> read]

\* self.original_content as load_subtitles left it, and the locals as
\* parse_subtitles initializes them
ParseInit ==
    /\ \E content \in Files :
            parser = [state |-> "parsing",
                      original_content |-> content,
                      subtitles |-> <<>>,
                      current_number |-> 0,
                      current_start |-> <<>>,
                      current_end |-> <<>>,
                      current_text_lines |-> <<>>,
                      i |-> 0,
                      appended_at |-> <<>>,
                      prior |-> [read |-> -1]]
    /\ NoCaption
    /\ unit = NoCall
    /\ session = NoSession

\* line = self.original_content[i].rstrip('\n\r')
line_read == rstrip(parser.original_content[parser.i + 1])

\* the loop condition holds
Reading == parser.state = "parsing" /\ parser.i < Len(parser.original_content)

\* i += 1, with the record of what the locals were before the step
Advance(p) == [p EXCEPT !.i = @ + 1, !.prior = Locals(parser, parser.i)]

\* the Subtitle built from the locals, appended to self.subtitles
Append_subtitle(p) ==
    [p EXCEPT !.subtitles =
                    Append(@, Subtitle(p.current_number, p.current_start,
                                       p.current_end, join(p.current_text_lines),
                                       p.current_text_lines)),
              !.appended_at = Append(@, p.i)]

\* a caption is appended at every blank line, open or not
BlankLineUnguarded ==
    /\ Reading
    /\ strip(line_read) = <<>>
    /\ parser' = [Advance(Append_subtitle(parser))
                    EXCEPT !.current_text_lines = <<>>, !.current_number = 0]
    /\ UNCHANGED <<caption_vars, unit, session>>

\* if not line.strip(): a caption is appended if one is open
BlankLine ==
    /\ Reading
    /\ strip(line_read) = <<>>
    /\ parser' =
            IF parser.current_number > 0 /\ parser.current_text_lines # <<>>
            THEN [Advance(Append_subtitle(parser))
                    EXCEPT !.current_text_lines = <<>>, !.current_number = 0]
            ELSE Advance(parser)
    /\ UNCHANGED <<caption_vars, unit, session>>

\* if line.isdigit() and not current_text_lines
NumberLine ==
    /\ Reading
    /\ strip(line_read) # <<>>
    /\ isdigit(line_read) /\ parser.current_text_lines = <<>>
    /\ parser' =
            IF int_raises(line_read)
            THEN [parser EXCEPT !.state = "raised", !.prior = Locals(parser, parser.i)]
            ELSE [Advance(parser) EXCEPT !.current_number = int(line_read)]
    /\ UNCHANGED <<caption_vars, unit, session>>

\* if '-->' in line and current_number > 0
TimestampLine ==
    /\ Reading
    /\ strip(line_read) # <<>>
    /\ ~(isdigit(line_read) /\ parser.current_text_lines = <<>>)
    /\ arrows(line_read) # {} /\ parser.current_number > 0
    /\ LET times == split_arrow(line_read)
       IN parser' =
            IF Len(times) = 2
            THEN [Advance(parser) EXCEPT !.current_start = strip(times[1]),
                                         !.current_end = strip(times[2])]
            ELSE Advance(parser)
    /\ UNCHANGED <<caption_vars, unit, session>>

\* if current_number > 0: current_text_lines.append(line_read)
TextLine ==
    /\ Reading
    /\ strip(line_read) # <<>>
    /\ ~(isdigit(line_read) /\ parser.current_text_lines = <<>>)
    /\ ~(arrows(line_read) # {} /\ parser.current_number > 0)
    /\ parser.current_number > 0
    /\ parser' = [Advance(parser) EXCEPT !.current_text_lines = Append(@, line_read)]
    /\ UNCHANGED <<caption_vars, unit, session>>

\* none of the conditions holds: i += 1
IgnoredLine ==
    /\ Reading
    /\ strip(line_read) # <<>>
    /\ ~(isdigit(line_read) /\ parser.current_text_lines = <<>>)
    /\ ~(arrows(line_read) # {} /\ parser.current_number > 0)
    /\ ~(parser.current_number > 0)
    /\ parser' = Advance(parser)
    /\ UNCHANGED <<caption_vars, unit, session>>

\* the loop without the statements after it
EndWithoutFlush ==
    /\ parser.state = "parsing"
    /\ parser.i = Len(parser.original_content)
    /\ parser' = [parser EXCEPT !.state = "done", !.prior = Locals(parser, -1)]
    /\ UNCHANGED <<caption_vars, unit, session>>

\* after the loop: the caption still open is appended
Flush ==
    /\ parser.state = "parsing"
    /\ parser.i = Len(parser.original_content)
    /\ parser' =
            [(IF parser.current_number > 0 /\ parser.current_text_lines # <<>>
              THEN Append_subtitle(parser) ELSE parser)
                EXCEPT !.state = "done", !.prior = Locals(parser, -1)]
    /\ UNCHANGED <<caption_vars, unit, session>>

ParseNext ==
    BlankLine \/ NumberLine \/ TimestampLine \/ TextLine \/ IgnoredLine \/ Flush

ParseSpec == ParseInit /\ [][ParseNext]_vars

---------------------------------------------------------------------------
(* SubtitleCleaner.process_interactively and apply_changes *)

\* the most captions in self.subtitles
MaxCaptions == 3

\* the single line of a parsed caption: one that cleaning leaves alone, one
\* that cleans to nothing, one that cleans to a shorter text
SessionTexts == {<<"a">>, <<"(", "a", ")">>, <<"a", "(", ")">>}

\* the times of the caption at each place of the file
StartTimes == <<"00:00:01,000", "00:00:03,000", "00:00:05,000">>
EndTimes == <<"00:00:02,000", "00:00:04,000", "00:00:06,000">>

\* the numbers read from the file
NumbersRead == 1..MaxCaptions

\* what parse_subtitles can return: numbers as read, repeated or descending
ParsedCaptions ==
    UNION {[1..n -> NumbersRead \X SessionTexts] : n \in 0..MaxCaptions}

\* what the user types at "Choose (1/2/3/4/0): "
Answers ==
    {<<"0">>, <<"1">>, <<"2">>, <<"3">>, <<"4">>, <<" ", "1">>, <<>>}

\* the Subtitle objects of self.subtitles, at the addresses 1..Len(values)
RECURSIVE objects(_, _)
objects(h, values) ==
    IF values = <<>> THEN h
    ELSE objects(new_object(h, values[1]).heap, Tail(values))

\* the file at self.file_path and the one at self.file_path + '.backup'
Untouched == [path |-> "original", blocks |-> <<>>, backup |-> FALSE]

SessionInit ==
    /\ \E captions \in ParsedCaptions :
        LET values == [k \in 1..Len(captions) |->
                          Subtitle(captions[k][1], StartTimes[k], EndTimes[k],
                                   join(<<captions[k][2]>>), <<captions[k][2]>>)]
        IN session = [state |-> "looping",
                      heap |-> objects(EmptyHeap, values),
                      subtitles |-> [k \in 1..Len(captions) |-> k],
                      parsed |-> values,
                      i |-> 0,
                      changes_made |-> <<>>,
                      subtitles_to_remove |-> <<>>,
                      choices |-> <<>>,
                      final_subtitles |-> <<>>,
                      error |-> FALSE,
                      result |-> "none",
                      file |-> Untouched]
    /\ NoCaption
    /\ parser = NoParser
    /\ unit = NoCall

\* a dict, as the list of its items in insertion order: d[key] = value
dict_set(d, key, value) ==
    IF \E k \in 1..Len(d) : d[k].key = key
    THEN [k \in 1..Len(d) |->
            IF d[k].key = key THEN [d[k] EXCEPT !.value = value] ELSE d[k]]
    ELSE Append(d, [key |-> key, value |-> value])

\* if key in d: del d[key]
dict_del(d, key) == SelectSeq(d, LAMBDA item : item.key # key)

\* sorted(to_remove, reverse=True)
RECURSIVE sorted_reverse(_)
sorted_reverse(s) ==
    IF s = <<>> THEN <<>>
    ELSE LET greatest == Max({s[k] : k \in 1..Len(s)})
             first == Min({k \in 1..Len(s) : s[k] = greatest})
         IN <<greatest>>
                \o sorted_reverse(SubSeq(s, 1, first - 1)
                                    \o SubSeq(s, first + 1, Len(s)))

\* subtitle_dict after the changes and the removals
subtitle_dict(h, subtitles, changes, to_remove) ==
    LET descending == sorted_reverse(to_remove)
        Built[k \in 0..Len(subtitles)] ==
            IF k = 0 THEN <<>>
            ELSE dict_set(Built[k - 1], h.subtitles[subtitles[k]].number,
                          subtitles[k])
        Updated[k \in 0..Len(changes)] ==
            IF k = 0 THEN Built[Len(subtitles)]
            ELSE dict_set(Updated[k - 1], h.subtitles[changes[k][1]].number,
                          changes[k][2])
        Deleted[k \in 0..Len(descending)] ==
            IF k = 0 THEN Updated[Len(changes)]
            ELSE IF descending[k] < Len(subtitles)
                 THEN dict_del(Deleted[k - 1],
                               h.subtitles[subtitles[descending[k] + 1]].number)
                 ELSE Deleted[k - 1]
    IN Deleted[Len(descending)]

\* final_subtitles.sort(key=lambda x: x.number): a stable sort
RECURSIVE sort_by_number(_, _)
sort_by_number(h, addrs) ==
    IF addrs = <<>> THEN <<>>
    ELSE LET least == Min({h.subtitles[addrs[k]].number : k \in 1..Len(addrs)})
             first == Min({k \in 1..Len(addrs) :
                                h.subtitles[addrs[k]].number = least})
         IN <<addrs[first]>>
                \o sort_by_number(h, SubSeq(addrs, 1, first - 1)
                                        \o SubSeq(addrs, first + 1, Len(addrs)))

\* the captions keep the numbers they have
renumber_none(h, final_subtitles) == h

\* for new_number, subtitle in enumerate(final_subtitles, 1):
\*     subtitle.number = new_number
renumber(h, final_subtitles) ==
    [h EXCEPT !.subtitles =
        [a \in 1..Len(h.subtitles) |->
            IF \E k \in 1..Len(final_subtitles) : final_subtitles[k] = a
            THEN [h.subtitles[a] EXCEPT !.number =
                    CHOOSE k \in 1..Len(final_subtitles) : final_subtitles[k] = a]
            ELSE h.subtitles[a]]]

\* the four writes of each caption: number, times, text, blank line
written_blocks(h, final_subtitles) ==
    [k \in 1..Len(final_subtitles) |->
        [number |-> h.subtitles[final_subtitles[k]].number,
         start_time |-> h.subtitles[final_subtitles[k]].start_time,
         end_time |-> h.subtitles[final_subtitles[k]].end_time,
         text |-> h.subtitles[final_subtitles[k]].text]]

\* apply_changes, from the dict to the numbers the captions are written with
apply_changes(s) ==
    LET d == subtitle_dict(s.heap, s.subtitles, s.changes_made,
                           s.subtitles_to_remove)
        final_subtitles ==
            sort_by_number(s.heap, [k \in 1..Len(d) |-> d[k].value])
    IN [s EXCEPT !.heap = renumber(s.heap, final_subtitles),
                 !.final_subtitles = final_subtitles]

\* if changes_made or subtitles_to_remove
Recorded(s) == s.changes_made # <<>> \/ s.subtitles_to_remove # <<>>

\* for i, subtitle in enumerate(self.subtitles)
Iterating == session.state = "looping" /\ session.i < Len(session.subtitles)

\* subtitle, and cleaned_subtitle = self.text_cleaner.clean_subtitle(subtitle)
current_subtitle == session.subtitles[session.i + 1]
cleaning == clean_subtitle(session.heap, current_subtitle)
cleaned_text == cleaning.heap.subtitles[cleaning.addr].text

\* cleaned_subtitle.text != subtitle.text: the caption is shown to the user
Shown ==
    /\ Iterating
    /\ cleaned_text # session.heap.subtitles[current_subtitle].text

will_remove == strip(cleaned_text) = <<>>

\* the end of one turn of the loop: what was typed is kept for the record
NextCaption(s, choice, new_text) ==
    [s EXCEPT !.i = @ + 1,
              !.choices = Append(@, [shown |-> TRUE, choice |-> choice,
                                     new_text |-> new_text])]

\* if cleaned_subtitle.text == subtitle.text: continue
Unchanged ==
    /\ Iterating
    /\ ~Shown
    /\ session' = [session EXCEPT
                        !.heap = cleaning.heap,
                        !.i = @ + 1,
                        !.choices = Append(@, [shown |-> FALSE, choice |-> <<>>,
                                               new_text |-> <<>>])]
    /\ UNCHANGED <<caption_vars, parser, unit>>

\* exit that saves what was recorded up to it
ExitSaving ==
    /\ Shown
    /\ \E answer \in Answers :
        LET left == [NextCaption([session EXCEPT !.heap = cleaning.heap],
                                 strip(answer), <<>>)
                        EXCEPT !.i = session.i, !.state = "returned"]
            applied == apply_changes(left)
        IN /\ strip(answer) = <<"0">>
           /\ session' =
                IF Recorded(left)
                THEN [applied EXCEPT
                        !.file = [path |-> "written",
                                  blocks |-> written_blocks(applied.heap,
                                                            applied.final_subtitles),
                                  backup |-> TRUE],
                        !.result = "True"]
                ELSE [left EXCEPT !.result = "False"]
    /\ UNCHANGED <<caption_vars, parser, unit>>

\* choice == '0': return False
Exit ==
    /\ Shown
    /\ \E answer \in Answers :
        /\ strip(answer) = <<"0">>
        /\ session' = [NextCaption([session EXCEPT !.heap = cleaning.heap],
                                   strip(answer), <<>>)
                          EXCEPT !.i = session.i,
                                 !.state = "returned",
                                 !.result = "False"]
    /\ UNCHANGED <<caption_vars, parser, unit>>

\* accept that records the cleaned caption whatever its text
AcceptAnyText ==
    /\ Shown
    /\ \E answer \in Answers :
        /\ strip(answer) = <<"1">>
        /\ session' =
            NextCaption([session EXCEPT !.heap = cleaning.heap,
                                        !.changes_made =
                                            Append(@, <<current_subtitle, cleaning.addr>>)],
                        strip(answer), <<>>)
    /\ UNCHANGED <<caption_vars, parser, unit>>

\* choice == '1', and will_remove: subtitles_to_remove.append(i);
\* otherwise changes_made.append((subtitle, cleaned_subtitle))
Accept ==
    /\ Shown
    /\ \E answer \in Answers :
        /\ strip(answer) = <<"1">>
        /\ session' =
            NextCaption(
                IF will_remove
                THEN [session EXCEPT !.heap = cleaning.heap,
                                     !.subtitles_to_remove = Append(@, session.i)]
                ELSE [session EXCEPT !.heap = cleaning.heap,
                                     !.changes_made =
                                        Append(@, <<current_subtitle, cleaning.addr>>)],
                strip(answer), <<>>)
    /\ UNCHANGED <<caption_vars, parser, unit>>

\* choice == '2'
KeepOriginal ==
    /\ Shown
    /\ \E answer \in Answers :
        /\ strip(answer) = <<"2">>
        /\ session' = NextCaption([session EXCEPT !.heap = cleaning.heap],
                                  strip(answer), <<>>)
    /\ UNCHANGED <<caption_vars, parser, unit>>

\* choice == '3': subtitles_to_remove.append(i)
Remove ==
    /\ Shown
    /\ \E answer \in Answers :
        /\ strip(answer) = <<"3">>
        /\ session' =
            NextCaption([session EXCEPT !.heap = cleaning.heap,
                                        !.subtitles_to_remove = Append(@, session.i)],
                        strip(answer), <<>>)
    /\ UNCHANGED <<caption_vars, parser, unit>>

\* choice == '4': new_text = input("Enter new text: ").strip(); a new_text
\* that is not empty goes, in a deep copy of the caption, to changes_made
EditManually ==
    /\ Shown
    /\ \E answer \in Answers, typed \in Typed :
        LET new_text == strip(typed)
            new_subtitle == deepcopy(cleaning.heap, current_subtitle)
        IN /\ strip(answer) = <<"4">>
           /\ session' =
                NextCaption(
                    IF new_text # <<>>
                    THEN [session EXCEPT
                            !.heap = assign_text(new_subtitle.heap,
                                                 new_subtitle.addr, new_text),
                            !.changes_made =
                                Append(@, <<current_subtitle, new_subtitle.addr>>)]
                    ELSE [session EXCEPT !.heap = cleaning.heap],
                    strip(answer), new_text)
    /\ UNCHANGED <<caption_vars, parser, unit>>

\* else: kept original (invalid option)
InvalidOption ==
    /\ Shown
    /\ \E answer \in Answers :
        /\ strip(answer) \notin {<<"0">>, <<"1">>, <<"2">>, <<"3">>, <<"4">>}
        /\ session' = NextCaption([session EXCEPT !.heap = cleaning.heap],
                                  strip(answer), <<>>)
    /\ UNCHANGED <<caption_vars, parser, unit>>

\* the loop is over
LoopOver == session.state = "looping" /\ session.i = Len(session.subtitles)

\* else: "No changes were made."; return False
NoChangesMade ==
    /\ LoopOver
    /\ ~Recorded(session)
    /\ session' = [session EXCEPT !.state = "returned", !.result = "False"]
    /\ UNCHANGED <<caption_vars, parser, unit>>

\* self.apply_changes(changes_made, subtitles_to_remove); return True
ApplyChanges ==
    /\ LoopOver
    /\ Recorded(session)
    /\ LET applied == apply_changes(session)
       IN session' = [applied EXCEPT
                        !.file = [path |-> "written",
                                  blocks |-> written_blocks(applied.heap,
                                                            applied.final_subtitles),
                                  backup |-> TRUE],
                        !.state = "returned",
                        !.result = "True"]
    /\ UNCHANGED <<caption_vars, parser, unit>>

\* open() or a write raises: except Exception prints the error and renames
\* the backup to self.file_path; apply_changes returns, and the caller
\* goes on to return True
WriteFails ==
    /\ LoopOver
    /\ Recorded(session)
    /\ session' = [apply_changes(session) EXCEPT
                        !.file = Untouched,
                        !.error = TRUE,
                        !.state = "returned",
                        !.result = "True"]
    /\ UNCHANGED <<caption_vars, parser, unit>>

\* Path(self.file_path).rename(backup_path) raises, outside the try: the
\* exception leaves apply_changes and process_interactively
RenameFails ==
    /\ LoopOver
    /\ Recorded(session)
    /\ session' = [session EXCEPT !.state = "raised"]
    /\ UNCHANGED <<caption_vars, parser, unit>>

SessionNext ==
    \/ Unchanged \/ Exit \/ Accept \/ KeepOriginal \/ Remove \/ EditManually
    \/ InvalidOption \/ NoChangesMade \/ ApplyChanges \/ WriteFails \/ RenameFails

SessionSpec == SessionInit /\ [][SessionNext]_vars

---------------------------------------------------------------------------
(* extract_srt.find_complete_english_subtitle and
   track_filter.find_english_subtitle: the string operations *)

UpperCase == <<<<"A">>, <<"B">>, <<"C">>, <<"D">>, <<"E">>, <<"F">>, <<"G">>, <<"H">>, <<"I">>, <<"J">>, <<"K">>, <<"L">>, <<"M">>, <<"N">>, <<"O">>, <<"P">>, <<"Q">>, <<"R">>, <<"S">>, <<"T">>, <<"U">>, <<"V">>, <<"W">>, <<"X">>, <<"Y">>, <<"Z">>>>
LowerCase == <<<<"a">>, <<"b">>, <<"c">>, <<"d">>, <<"e">>, <<"f">>, <<"g">>, <<"h">>, <<"i">>, <<"j">>, <<"k">>, <<"l">>, <<"m">>, <<"n">>, <<"o">>, <<"p">>, <<"q">>, <<"r">>, <<"s">>, <<"t">>, <<"u">>, <<"v">>, <<"w">>, <<"x">>, <<"y">>, <<"z">>>>

\* str.lower()
lower(s) ==
    [i \in 1..Len(s) |->
        IF \E k \in 1..Len(UpperCase) : UpperCase[k] = s[i]
        THEN LowerCase[CHOOSE k \in 1..Len(UpperCase) : UpperCase[k] = s[i]]
        ELSE s[i]]

\* line.startswith(prefix)
startswith(s, prefix) ==
    Len(prefix) <= Len(s) /\ SubSeq(s, 1, Len(prefix)) = prefix

\* tag in title
contains(s, tag) ==
    \E i \in 1..(Len(s) - Len(tag) + 1) : SubSeq(s, i, i + Len(tag) - 1) = tag

\* line.split('=')[1], for a line that holds an equals sign
after_equals(s) ==
    LET signs == {i \in 1..Len(s) : s[i] = "="}
        first == Min(signs)
        later == {i \in signs : i > first}
    IN SubSeq(s, first + 1, IF later = {} THEN Len(s) ELSE Min(later) - 1)

\* None, and a value that is not None
None == <<>>
Some(value) == <<value>>

---------------------------------------------------------------------------
(* The subtitle streams ffprobe lists *)

\* the most subtitle streams of a file
MaxStreams == 2

\* the index ffprobe gives the subtitle stream at each place
StreamIndexes == <<<<"2">>, <<"3">>, <<"4">>>>

Languages == {Some(<<"e", "n", "g">>), Some(<<"p", "o", "r">>)}

Titles == {None, Some(<<"F", "o", "r", "c", "e", "d">>), Some(<<"S", "D", "H">>), Some(<<"C", "C">>), Some(<<"a", "=", "F", "o", "r", "c", "e", "d">>)}

Streams ==
    [forced : {0, 1}, hearing_impaired : {0, 1}, language : Languages, title : Titles]

Listings == UNION {[1..n -> Streams] : n \in 0..MaxStreams}

\* one entry of the default writer of ffprobe, key=value
entry(key, value) == key \o <<"=">> \o value

flag(bit) == IF bit = 1 THEN <<"1">> ELSE <<"0">>

\* the section ffprobe prints for one stream, with the entries of the command
stream_section(stream, index) ==
    <<<<"[", "S", "T", "R", "E", "A", "M", "]">>,
      entry(<<"i", "n", "d", "e", "x">>, index),
      entry(<<"D", "I", "S", "P", "O", "S", "I", "T", "I", "O", "N", ":", "f", "o", "r", "c", "e", "d">>, flag(stream.forced)),
      entry(<<"D", "I", "S", "P", "O", "S", "I", "T", "I", "O", "N", ":", "h", "e", "a", "r", "i", "n", "g", "_", "i", "m", "p", "a", "i", "r", "e", "d">>, flag(stream.hearing_impaired))>>
    \o (IF stream.language = None THEN <<>>
        ELSE <<entry(<<"T", "A", "G", ":", "l", "a", "n", "g", "u", "a", "g", "e">>, stream.language[1])>>)
    \o (IF stream.title = None THEN <<>>
        ELSE <<entry(<<"T", "A", "G", ":", "t", "i", "t", "l", "e">>, stream.title[1])>>)
    \o <<<<"[", "/", "S", "T", "R", "E", "A", "M", "]">>>>

\* result.stdout: the sections, each line ended by a line break
ffprobe_output(streams) ==
    LET Printed[k \in 0..Len(streams)] ==
            IF k = 0 THEN <<>>
            ELSE Printed[k - 1] \o stream_section(streams[k], StreamIndexes[k])
    IN IF streams = <<>> THEN <<>>
       ELSE join(Printed[Len(streams)] \o <<<<>>>>)

\* the locals of the loop over the lines, reset at [stream]
NoStream ==
    [current_index |-> None, current_lang |-> None, current_title |-> None,
     current_forced |-> FALSE, current_hearing_impaired |-> FALSE]

\* the branches that read one entry: index=, tag:language=, tag:title=,
\* disposition:forced=, disposition:hearing_impaired=
read_entry(c, line) ==
    IF startswith(line, <<"i", "n", "d", "e", "x", "=">>)
    THEN [c EXCEPT !.current_index = Some(after_equals(line))]
    ELSE IF startswith(line, <<"t", "a", "g", ":", "l", "a", "n", "g", "u", "a", "g", "e", "=">>)
    THEN [c EXCEPT !.current_lang = Some(strip(after_equals(line)))]
    ELSE IF startswith(line, <<"t", "a", "g", ":", "t", "i", "t", "l", "e", "=">>)
    THEN [c EXCEPT !.current_title = Some(strip(after_equals(line)))]
    ELSE IF startswith(line, <<"d", "i", "s", "p", "o", "s", "i", "t", "i", "o", "n", ":", "f", "o", "r", "c", "e", "d", "=">>)
    THEN [c EXCEPT !.current_forced = (strip(after_equals(line)) = <<"1">>)]
    ELSE IF startswith(line, <<"d", "i", "s", "p", "o", "s", "i", "t", "i", "o", "n", ":", "h", "e", "a", "r", "i", "n", "g", "_", "i", "m", "p", "a", "i", "r", "e", "d", "=">>)
    THEN [c EXCEPT !.current_hearing_impaired = (strip(after_equals(line)) = <<"1">>)]
    ELSE c

\* a value that is neither None nor the empty string
truthy(optional) == optional # None /\ optional[1] # <<>>

---------------------------------------------------------------------------
(* extract_srt.find_complete_english_subtitle *)

\* lang_variations['en']
lang_variations_en == {<<"e", "n">>, <<"e", "n", "g">>, <<"e", "n", "g", "l", "i", "s", "h">>, <<"e", "n", "-", "u", "s">>, <<"e", "n", "_", "u", "s">>, <<"e", "n", "u", "s">>, <<"e", "n", "-", "g", "b">>, <<"e", "n", "_", "g", "b">>, <<"e", "n", "g", "b">>}

\* subtitle_type, for a title that is not empty
type_of_title(title_lower) ==
    IF \E tag \in {<<"s", "d", "h">>, <<"h", "i">>, <<"h", "e", "a", "r", "i", "n", "g">>, <<"i", "m", "p", "a", "i", "r", "e", "d">>} : contains(title_lower, tag) THEN "hi"
    ELSE IF \E tag \in {<<"c", "c">>, <<"c", "a", "p", "t", "i", "o", "n">>} : contains(title_lower, tag) THEN "cc"
    ELSE "normal"

\* the candidates after the line [/stream]
complete_stream(candidates, c) ==
    IF ~(truthy(c.current_lang) /\ c.current_lang[1] \in lang_variations_en
            /\ ~c.current_forced)
    THEN candidates
    ELSE IF truthy(c.current_title) /\ contains(lower(c.current_title[1]), <<"f", "o", "r", "c", "e", "d">>)
    THEN candidates
    ELSE LET by_title == IF truthy(c.current_title)
                         THEN type_of_title(lower(c.current_title[1]))
                         ELSE "normal"
             subtitle_type == IF c.current_hearing_impaired /\ by_title = "normal"
                              THEN "hi" ELSE by_title
         IN Append(candidates,
                   [index |-> c.current_index,
                    type |-> subtitle_type,
                    title_special |-> by_title # "normal"])

type_priority(type) ==
    CASE type = "normal" -> 0
      [] type = "hi" -> 1
      [] type = "cc" -> 2
      [] type = "title_special" -> 3

\* the loop over subtitle_candidates
best_subtitle(candidates) ==
    LET Best[k \in 0..Len(candidates)] ==
            IF k = 0 THEN None
            ELSE LET candidate == candidates[k]
                     candidate_type ==
                        IF candidate.title_special /\ candidate.type = "normal"
                        THEN "title_special" ELSE candidate.type
                 IN IF Best[k - 1] = None
                       \/ type_priority(candidate_type)
                            < type_priority(Best[k - 1][1].type)
                    THEN Some(candidate) ELSE Best[k - 1]
    IN Best[Len(candidates)]

\* subtitle_candidates after the loop over output.split('\n')
subtitle_candidates(output) ==
    LET lines == split(output)
        Read[k \in 0..Len(lines)] ==
            IF k = 0 THEN [candidates |-> <<>>, current |-> NoStream]
            ELSE LET line == lower(strip(lines[k]))
                     r == Read[k - 1]
                 IN IF startswith(line, <<"[", "s", "t", "r", "e", "a", "m", "]">>)
                    THEN [r EXCEPT !.current = NoStream]
                    ELSE IF startswith(line, <<"[", "/", "s", "t", "r", "e", "a", "m", "]">>)
                    THEN [r EXCEPT !.candidates = complete_stream(@, r.current)]
                    ELSE [r EXCEPT !.current = read_entry(@, line)]
    IN Read[Len(lines)].candidates

find_complete_english_subtitle(output) ==
    LET best == best_subtitle(subtitle_candidates(output))
    IN IF best = None THEN None ELSE best[1].index

---------------------------------------------------------------------------
(* track_filter.find_english_subtitle *)

\* the three indexes after the line [/stream]
process_stream(found, c) ==
    IF ~(truthy(c.current_lang) /\ c.current_lang[1] \in {<<"e", "n">>, <<"e", "n", "g">>, <<"e", "n", "g", "l", "i", "s", "h">>})
    THEN found
    ELSE LET title_special ==
                /\ truthy(c.current_title)
                /\ \E special \in {<<"f", "o", "r", "c", "e", "d">>, <<"s", "d", "h">>, <<"h", "i">>, <<"h", "e", "a", "r", "i", "n", "g">>, <<"s", "i", "g", "n", "s">>, <<"d", "u", "b">>} : contains(c.current_title[1], special)
             is_special ==
                c.current_forced \/ c.current_hearing_impaired \/ title_special
         IN IF ~is_special THEN [found EXCEPT !.normal_sub_index = c.current_index]
            ELSE IF c.current_forced
            THEN [found EXCEPT !.forced_sub_index = c.current_index]
            ELSE [found EXCEPT !.hearing_impaired_sub_index = c.current_index]

find_english_subtitle(output) ==
    LET lines == split(output)
        Read[k \in 0..Len(lines)] ==
            IF k = 0
            THEN [found |-> [normal_sub_index |-> None, forced_sub_index |-> None,
                             hearing_impaired_sub_index |-> None],
                  current |-> NoStream]
            ELSE LET line == lower(strip(lines[k]))
                     r == Read[k - 1]
                 IN IF startswith(line, <<"[", "s", "t", "r", "e", "a", "m", "]">>)
                    THEN [r EXCEPT !.current = NoStream]
                    ELSE IF startswith(line, <<"[", "/", "s", "t", "r", "e", "a", "m", "]">>)
                    THEN [r EXCEPT !.found = process_stream(@, r.current)]
                    ELSE [r EXCEPT !.current = read_entry(@, line)]
        found == Read[Len(lines)].found
    IN IF truthy(found.normal_sub_index) THEN found.normal_sub_index
       ELSE IF truthy(found.forced_sub_index) THEN found.forced_sub_index
       ELSE found.hearing_impaired_sub_index

---------------------------------------------------------------------------
(* The two functions called on a listing *)

StreamInit ==
    /\ \E streams \in Listings :
            unit = [fn |-> "none", streams |-> streams,
                    arg |-> ffprobe_output(streams), out |-> None]
    /\ NoCaption
    /\ parser = NoParser
    /\ session = NoSession

Call_find_complete_english_subtitle ==
    /\ unit.fn = "none"
    /\ unit' = [unit EXCEPT !.fn = "find_complete_english_subtitle",
                            !.out = find_complete_english_subtitle(unit.arg)]
    /\ UNCHANGED <<caption_vars, parser, session>>

Call_find_english_subtitle ==
    /\ unit.fn = "none"
    /\ unit' = [unit EXCEPT !.fn = "find_english_subtitle",
                            !.out = find_english_subtitle(unit.arg)]
    /\ UNCHANGED <<caption_vars, parser, session>>

StreamNext == Call_find_complete_english_subtitle \/ Call_find_english_subtitle

StreamSpec == StreamInit /\ [][StreamNext]_vars

---------------------------------------------------------------------------
(* Properties of clean_subtitle *)

\* clean_subtitle has just returned
Returned == pc \in {"cleaned", "recleaned"}

\* the caption the last call was given, and the caption it returned
Source == deref(heap, IF pc = "recleaned" THEN cleaned ELSE subtitle)
Result == deref(heap, IF pc = "recleaned" THEN recleaned ELSE cleaned)

\* the lines of a text; the empty text has none
LinesOf(text) == IF text = <<>> THEN <<>> ELSE split(text)

Dashed(line) == line # <<>> /\ line[1] \in Dashes

\* the three triggers of the dash reformatting, for the last call
Triggered ==
    \/ Cardinality(Source.structure.speakers) > 1
    \/ Source.structure.has_dashes
    \/ \E i \in 1..Len(frame.cleaned_lines) : Dashed(strip(frame.cleaned_lines[i]))

\* C1: clean_subtitle never mutates its input: whatever was done since, the
\* caption given is what it was before the call (number, start_time,
\* end_time, text, lines, original_text, structure), and the caption returned
\* is another object that shares neither its list nor its structure with it,
\* so that a later modification of it cannot change the input.
C1_InputNeverMutated ==
    /\ deref(heap, subtitle) = before
    /\ \A r \in {cleaned, recleaned, edited} \ {0} :
        /\ r # subtitle
        /\ heap.subtitles[r].lines # heap.subtitles[subtitle].lines
        /\ heap.subtitles[r].structure # heap.subtitles[subtitle].structure

\* a caption that cleaning changed was returned and then renumbered
C1_Witness ==
    /\ pc = "modified"
    /\ deref(heap, cleaned).text # before.text
    /\ deref(heap, cleaned).number # before.number

\* C2: the caption returned has the number, start_time, end_time and
\* original_text of the caption given (on a second pass too, where
\* original_text is no longer the text); only lines and text may differ.
C2_FieldsCopied ==
    Returned =>
        /\ Result.number = before.number
        /\ Result.start_time = before.start_time
        /\ Result.end_time = before.end_time
        /\ Result.original_text = before.original_text
        /\ Result.structure = before.structure

\* a second pass returned a caption whose text is not its original_text
C2_Witness ==
    /\ pc = "recleaned"
    /\ Result.original_text # Source.text
    /\ Result.text # Result.original_text

\* C3: in every caption, as constructed by parse_subtitles, as returned by
\* clean_subtitle or as made by a manual edit, text is the lines joined by a
\* line break.
C3_TextIsJoinedLines ==
    \A a \in 1..Len(heap.subtitles) :
        deref(heap, a).text = join(deref(heap, a).lines)

\* a caption cleaned to two lines, and a manual edit of the caption given
C3_Witness ==
    /\ pc = "edited"
    /\ Len(deref(heap, cleaned).lines) = 2
    /\ deref(heap, cleaned).lines # before.lines
    /\ deref(heap, edited).lines # before.lines

\* C4: the dash reformatting is applied if and only if the original profile
\* has more than one speaker, or has_dashes, or a surviving cleaned line
\* starts with a dash: when triggered every formatted line starts with a dash,
\* otherwise none does and the text passes through unchanged. A caption with
\* one speaker label and no dash, original or cleaned, gets no leading dash;
\* two detected speakers trigger it even if a labelled line is stripped away.
C4_ReformatIffTriggered ==
    Returned =>
        LET out == LinesOf(frame.formatted)
            final == LinesOf(Result.text)
        IN /\ frame.joined # <<>> =>
                /\ Triggered <=> \A i \in 1..Len(out) : Dashed(out[i])
                /\ Triggered <=> \E i \in 1..Len(out) : Dashed(out[i])
           /\ ~Triggered => frame.formatted = frame.joined
           /\ (/\ Cardinality(Source.structure.speakers) = 1
               /\ ~Source.structure.has_dashes
               /\ \A i \in 1..Len(frame.cleaned_lines) :
                        ~Dashed(strip(frame.cleaned_lines[i])))
                => \A i \in 1..Len(final) : ~Dashed(final[i])
           /\ Cardinality(Source.structure.speakers) > 1
                => \A i \in 1..Len(final) : Dashed(final[i])

\* two speakers, no dash anywhere, one labelled line stripped away, and the
\* line that is left got its hyphen
C4_Witness ==
    /\ pc = "cleaned"
    /\ Cardinality(before.structure.speakers) = 2
    /\ ~before.structure.has_dashes
    /\ Len(before.lines) = 2
    /\ Len(frame.cleaned_lines) = 1
    /\ ~Dashed(frame.cleaned_lines[1])
    /\ Result.text[1] = HYPHEN

Prefix(p, s) == Len(p) <= Len(s) /\ SubSeq(s, 1, Len(p)) = p

\* what follows the first colon of a line that has one, and what precedes it
AfterLabel(line) ==
    SubSeq(line, Min({k \in 1..Len(line) : line[k] = ":"}) + 1, Len(line))
Label(line) ==
    strip(SubSeq(line, 1, Min({k \in 1..Len(line) : line[k] = ":"}) - 1))

\* no parenthetical, bracketed, braced or hash-delimited span, no music glyph
Unpolluted(structure) ==
    /\ ~structure.has_parentheses
    /\ ~structure.has_brackets
    /\ ~structure.has_curly_brackets
    /\ ~structure.has_hash_content
    /\ ~structure.has_music

\* a caption of two lines with two distinct speaker labels has been cleaned
TwoLabelled ==
    /\ pc = "cleaned"
    /\ Len(before.lines) = 2
    /\ Cardinality(before.structure.speakers) = 2

\* text that is not blank and does not start with a dash
Dialogue(text) == strip(text) # <<>> /\ ~Dashed(strip(text))

C7_NoBlankLine ==
    pc = "cleaned" =>
        /\ \A i \in 1..Len(LinesOf(Result.text)) :
                strip(LinesOf(Result.text)[i]) # <<>>
        /\ \A i \in 1..Len(Result.lines) : strip(Result.lines[i]) # <<>>
        /\ frame.cleaned_lines = <<>> => Result.text = <<>>

\* a colon with one or more characters, none of them a colon, before it
HasLabelPrefix(line) ==
    \E k \in 2..Len(line) :
        line[k] = ":" /\ \A j \in 1..(k - 1) : line[j] # ":"

\* no pollution marker in any line: no span, no music glyph, no speaker
\* label and no leading dash, each after trimming
NoMarker(caption) ==
    /\ Unpolluted(caption.structure)
    /\ \A i \in 1..Len(caption.lines) :
            /\ ~HasLabelPrefix(strip(caption.lines[i]))
            /\ ~Dashed(strip(caption.lines[i]))

\* C8: a caption whose lines contain no pollution marker is cleaned to the
\* final normalization of its text.
C8_UnpollutedTextOnlyNormalized ==
    (pc = "cleaned" /\ NoMarker(before)) =>
        Result.text = _final_cleanup(before.text)

\* C9 (as claimed): cleaning the cleaned caption again, with the profile
\* copied from the original, yields the same text.
C9_Idempotent ==
    pc = "recleaned" => Result.text = Source.text

\* C9 (amended): cleaning the cleaned caption again, with the profile copied
\* from the original, yields the same text provided no line of the cleaned
\* text still begins with a label prefix (one or more characters other than a
\* colon, then a colon).
C9_IdempotentWithoutLabelLeft ==
    (/\ pc = "recleaned"
     /\ \A i \in 1..Len(LinesOf(Source.text)) :
            ~HasLabelPrefix(LinesOf(Source.text)[i]))
        => /\ Result.text = Source.text
           /\ Result.structure = before.structure

\* a caption of two speakers and no dash, which the first pass reformatted
\* with a hyphen and left without label, has been cleaned again
C9_Witness ==
    /\ pc = "recleaned"
    /\ Source.text # before.text
    /\ Dashed(Source.text)
    /\ ~before.structure.has_dashes
    /\ Cardinality(before.structure.speakers) > 1
    /\ \A i \in 1..Len(LinesOf(Source.text)) :
            ~HasLabelPrefix(LinesOf(Source.text)[i])

\* C10: a caption given zero lines is cleaned to a caption with the empty
\* text, and for every caption clean_subtitle returns a caption: a text and a
\* list of lines, never anything else.
C10_ZeroLinesCleanToEmptyText ==
    /\ (pc = "cleaned" /\ given_lines = <<>>) => Result.text = <<>>
    /\ Returned =>
        /\ Result.text \in Seq(Characters \cup {NL})
        /\ Result.lines \in Seq(Seq(Characters))

\* the caption given zero lines has been cleaned
C10_Witness ==
    /\ pc = "cleaned"
    /\ given_lines = <<>>
    /\ before.text = <<>>

---------------------------------------------------------------------------
(* Properties of the structure analysis *)

\* the line has the character open and, somewhere after it, the character close
HasSpan(line, open, close) ==
    \E j \in 1..Len(line) : \E k \in (j + 1)..Len(line) :
        line[j] = open /\ line[k] = close

\* the first character of the line that is not whitespace is a dash
StartsWithDash(line) ==
    \E j \in 1..Len(line) :
        /\ line[j] \in Dashes
        /\ \A k \in 1..(j - 1) : line[k] \in Whitespace

\* C11: each flag of the profile of a caption, as analysed when the caption
\* is constructed, is true if and only if some line of the caption has the
\* marker: a complete span for has_parentheses, has_brackets,
\* has_curly_brackets and has_hash_content, the music glyph for has_music, and
\* for has_dashes a dash (hyphen, en-dash, em-dash) as the first character of
\* the trimmed line; a dash inside or at the end of a line does not set it.
C11_FlagsIffSomeLineHasMarker ==
    LET lines == before.lines
        some(P(_)) == \E i \in 1..Len(lines) : P(lines[i])
        profile == before.structure
    IN /\ profile.has_parentheses <=> some(LAMBDA l : HasSpan(l, "(", ")"))
       /\ profile.has_brackets <=> some(LAMBDA l : HasSpan(l, "[", "]"))
       /\ profile.has_curly_brackets <=> some(LAMBDA l : HasSpan(l, "{", "}"))
       /\ profile.has_hash_content <=> some(LAMBDA l : HasSpan(l, "#", "#"))
       /\ profile.has_music <=> some(LAMBDA l : \E j \in 1..Len(l) : l[j] = MUSIC)
       /\ profile.has_dashes <=> some(StartsWithDash)

\* a caption of two lines, each with a dash inside or at its end and none at
\* its start, was analysed: has_dashes is not set
C11_Witness ==
    /\ Len(before.lines) = 2
    /\ \A i \in 1..2 :
            /\ \E j \in 2..Len(before.lines[i]) : before.lines[i][j] \in Dashes
            /\ ~StartsWithDash(before.lines[i])
    /\ ~before.structure.has_dashes

Pollution == {"(", ")", "[", "]", "{", "}", "#", MUSIC}

\* C12: the speakers of the profile are exactly the non-empty names got, for
\* each line whose trimmed text begins with a label (one or more characters
\* other than a colon, then a colon), from the text before the first colon,
\* trimmed, with its spans and music glyphs removed, and trimmed again. Dashes
\* stay: a label without any pollution character is a speaker as it stands.
\* Names are compared as exact strings, so a label repeated on several lines
\* counts once, labels that differ in case count separately, and a label that
\* is empty after the removal adds no speaker.
C12_SpeakersAreCleanedLabels ==
    LET lines == before.lines
        labelled == {i \in 1..Len(lines) : HasLabelPrefix(strip(lines[i]))}
        speakers == before.structure.speakers
    IN /\ speakers = {_clean_speaker_name(Label(lines[i])) : i \in labelled} \ {<<>>}
       /\ \A i \in labelled :
            (\A j \in 1..Len(Label(lines[i])) : Label(lines[i])[j] \notin Pollution)
                => Label(lines[i]) \in speakers
       /\ speaker_count(before.structure) <= Cardinality(labelled)
       /\ (\A i \in labelled : \A k \in labelled : Label(lines[i]) = Label(lines[k]))
            => speaker_count(before.structure) <= 1

\* two lines whose labels differ in case only were analysed as two speakers
C12_Witness ==
    /\ Len(before.lines) = 2
    /\ \A i \in 1..2 : HasLabelPrefix(strip(before.lines[i]))
    /\ Label(before.lines[1]) = <<"a">>
    /\ Label(before.lines[2]) = <<"A">>
    /\ speaker_count(before.structure) = 2

\* C13: the line_count of the profile is the number of lines the caption was
\* given, empty lines included, and 0 for a caption given zero lines.
C13_LineCountIsLinesGiven ==
    before.structure.line_count = Len(given_lines)

\* no music glyph, no opening character with its closing character after it
Stripped(line) ==
    /\ \A j \in 1..Len(line) : line[j] # MUSIC
    /\ ~HasSpan(line, "(", ")")
    /\ ~HasSpan(line, "[", "]")
    /\ ~HasSpan(line, "{", "}")
    /\ ~HasSpan(line, "#", "#")

\* C15: the per-line stripping removes every parenthetical, bracketed, braced
\* and hash-delimited span and every music glyph: no surviving cleaned line,
\* and no line of the text or of the lines of a cleaned caption, has a music
\* glyph, a '(' with a ')' after it, a '[' with a ']' after it, a '{' with a
\* '}' after it, or two '#'.
C15_NoSpanNoMusicLeft ==
    Returned =>
        /\ \A i \in 1..Len(frame.cleaned_lines) : Stripped(frame.cleaned_lines[i])
        /\ \A i \in 1..Len(LinesOf(Result.text)) : Stripped(LinesOf(Result.text)[i])
        /\ \A i \in 1..Len(Result.lines) : Stripped(Result.lines[i])

\* a line with a parenthetical span and one more opening parenthesis was
\* cleaned to the parenthesis that closes nowhere
C15_Witness ==
    /\ pc = "cleaned"
    /\ before.structure.has_parentheses
    /\ Result.text = <<"(">>

---------------------------------------------------------------------------
(* Properties of the static methods *)

\* a line as _final_cleanup leaves it
Normalized(line) ==
    /\ line # <<>>
    /\ line[1] \notin Whitespace
    /\ line[Len(line)] \notin Whitespace
    /\ \A i \in 1..(Len(line) - 1) :
            /\ ~(line[i] \in Whitespace /\ line[i + 1] \in Whitespace)
            /\ ~(line[i] \in Dashes /\ line[i + 1] \in Whitespace)
            /\ ~(line[i] \in Whitespace /\ line[i + 1] \in Punctuation)

\* C14: every line of a text returned by _final_cleanup is non-empty, has no
\* whitespace at its start or end, no two adjacent whitespace characters, no
\* whitespace right after a hyphen, en-dash or em-dash, and no whitespace
\* right before one of . , ! ? ; : (the empty text has no line); so has every
\* line of the text of a cleaned caption.
C14_EveryLineNormalized ==
    /\ unit.fn = "_final_cleanup" =>
            \A i \in 1..Len(LinesOf(unit.out)) : Normalized(LinesOf(unit.out)[i])
    /\ Returned =>
            \A i \in 1..Len(LinesOf(Result.text)) : Normalized(LinesOf(Result.text)[i])

\* a text of one line with a space after a dash, never reformatted, came out
\* without the space
C14_Witness ==
    /\ unit.fn = "_final_cleanup"
    /\ unit.arg = <<"a", HYPHEN, " ", "a">>
    /\ unit.out = <<"a", HYPHEN, "a">>

\* the text begins with one or more characters, none of them a colon or a
\* line break, and then a colon
BeginsWithLabel(text) ==
    \E k \in 2..Len(text) :
        text[k] = ":" /\ \A j \in 1..(k - 1) : text[j] \notin {":", NL}

\* C16: _remove_speaker_identification removes at most the text from the
\* start of the line up to and including the first colon, leaves every
\* character after that colon as it is, and returns a line that, trimmed, does
\* not begin with a label as it was given.
C16_OnlyLabelPrefixRemoved ==
    unit.fn = "_remove_speaker_identification" =>
        LET colons == {i \in 1..Len(unit.arg) : unit.arg[i] = ":"}
        IN /\ \/ unit.out = unit.arg
              \/ /\ colons # {}
                 /\ unit.out = SubSeq(unit.arg, Min(colons) + 1, Len(unit.arg))
           /\ ~BeginsWithLabel(strip(unit.arg)) => unit.out = unit.arg

---------------------------------------------------------------------------
(* Properties of parse_subtitles *)

\* the lines of the file without their line ends
FileLine(k) == rstrip(parser.original_content[k])

Blank(k) == strip(FileLine(k)) = <<>>

\* the blocks of the file: the longest runs first..last of lines that are
\* not blank
Blocks ==
    {b \in (1..Len(parser.original_content)) \X (1..Len(parser.original_content)) :
        /\ b[1] <= b[2]
        /\ \A k \in b[1]..b[2] : ~Blank(k)
        /\ b[1] = 1 \/ Blank(b[1] - 1)
        /\ b[2] = Len(parser.original_content) \/ Blank(b[2] + 1)}

\* a block of a numeric line, a line with an arrow, and one or more lines
Complete(b) ==
    /\ b[2] >= b[1] + 2
    /\ isdigit(FileLine(b[1])) /\ ~int_raises(FileLine(b[1]))
    /\ arrows(FileLine(b[1] + 1)) # {}

\* the captions appended when the block was closed, at the blank line after
\* it or at the end of the file (appended_at counts lines from 0)
CaptionsOf(b) ==
    {k \in 1..Len(parser.subtitles) : parser.appended_at[k] = b[2]}

\* C17: when the file has been parsed, every block that begins with a
\* numeric line and a timestamp line has given a caption whose number is the
\* integer value of the numeric line and whose lines are, in order, all the
\* lines of the block after the timestamp line, whatever they contain.
C17_NumberAndAllTextLines ==
    parser.state = "done" =>
        \A b \in Blocks :
            Complete(b) =>
                \E k \in CaptionsOf(b) :
                    /\ parser.subtitles[k].number = int(FileLine(b[1]))
                    /\ parser.subtitles[k].lines =
                            [j \in 1..(b[2] - b[1] - 1) |-> FileLine(b[1] + 1 + j)]

\* C18: the caption of a block that begins with a numeric line and a
\* timestamp line has as start_time the trimmed text before the first arrow of
\* the timestamp line and as end_time the trimmed text after it, however many
\* arrows the line has.
C18_TimesSplitAtFirstArrow ==
    parser.state = "done" =>
        \A b \in Blocks :
            Complete(b) =>
                \A k \in CaptionsOf(b) :
                    LET stamp == FileLine(b[1] + 1)
                        first == Min(arrows(stamp))
                    IN /\ parser.subtitles[k].start_time =
                                strip(SubSeq(stamp, 1, first - 1))
                       /\ parser.subtitles[k].end_time =
                                strip(SubSeq(stamp, first + 3, Len(stamp)))

\* the lines of the file at the places in S, in the order of the file
FileLinesAt(S) ==
    KeepAt([k \in 1..Len(parser.original_content) |-> FileLine(k)], S)

\* the last caption appended is the one the locals described
AppendedFrom(locals, place) ==
    LET n == Len(parser.subtitles)
    IN /\ n = locals.appended + 1
       /\ parser.appended_at[n] = place
       /\ parser.subtitles[n].number = locals.current_number
       /\ parser.subtitles[n].lines = locals.current_text_lines
       /\ parser.subtitles[n].text = join(locals.current_text_lines)

\* C19: the captions are appended in the order of their blocks, one caption
\* at most for a block: each at the end of another block, later in the file
\* than the one before, with lines taken in order from that block. A caption
\* is appended exactly when a blank line, or the end of the file, is reached
\* with a number seen and one text line or more; so a block still open when
\* the file ends without a blank line is appended as the last caption.
C19_AppendedInOrderOnce ==
    LET n == Len(parser.subtitles)
        at == parser.appended_at
        was == parser.prior
        open == was.current_number > 0 /\ was.current_text_lines # <<>>
    IN parser.state \in {"parsing", "done"} =>
        /\ \A k \in 1..(n - 1) : at[k] < at[k + 1]
        /\ \A k \in 1..n :
                \E b \in Blocks :
                    /\ b[2] = at[k]
                    /\ \E S \in (SUBSET (b[1]..b[2])) \ {{}} :
                            parser.subtitles[k].lines = FileLinesAt(S)
        /\ (was.read >= 0 /\ Blank(was.read + 1)) =>
                IF open THEN AppendedFrom(was, was.read) ELSE n = was.appended
        /\ (was.read >= 0 /\ ~Blank(was.read + 1)) => n = was.appended
        /\ parser.state = "done" =>
                IF open THEN AppendedFrom(was, Len(parser.original_content))
                ELSE n = was.appended

\* a file of two blocks without a blank line at its end was parsed into two
\* captions, the second appended at the end of the file
C19_Witness ==
    /\ parser.state = "done"
    /\ Len(parser.original_content) = 5
    /\ ~Blank(Len(parser.original_content))
    /\ Len(parser.subtitles) = 2
    /\ parser.subtitles[1].number = 1
    /\ parser.subtitles[2].number = 12
    /\ parser.subtitles[1].lines = <<<<"a">>>>
    /\ parser.subtitles[2].lines = <<<<"b">>>>
    /\ parser.appended_at[2] = Len(parser.original_content)

\* C20: parse_subtitles never fails, whatever the file holds; a line that is
\* neither blank nor numeric, read while no caption number is set, changes
\* nothing but the place in the file and adds to no caption; and a blank line
\* read while no caption is open is skipped without a caption being appended.
C20_NeverFailsOutsideIgnored ==
    /\ parser.state # "raised"
    /\ (parser.state = "parsing" /\ parser.prior.read >= 0) =>
            LET was == parser.prior
                read == was.read + 1
            IN /\ (/\ ~Blank(read)
                   /\ ~isdigit(FileLine(read))
                   /\ was.current_number = 0)
                    => Locals(parser, was.read) = was
               /\ (/\ Blank(read)
                   /\ ~(was.current_number > 0 /\ was.current_text_lines # <<>>))
                    => Locals(parser, was.read) = was

\* C26: every caption parse_subtitles has appended, at any point of any
\* file, has a number greater than 0 and one text line or more, none of them
\* empty or made of whitespace only.
C26_CaptionsNumberedWithText ==
    \A k \in 1..Len(parser.subtitles) :
        /\ parser.subtitles[k].number > 0
        /\ parser.subtitles[k].lines # <<>>
        /\ \A j \in 1..Len(parser.subtitles[k].lines) :
                strip(parser.subtitles[k].lines[j]) # <<>>

\* a caption was appended from a file that has a line of whitespace only and
\* a numeric line without any text line after it
C26_Witness ==
    /\ parser.state = "done"
    /\ Len(parser.subtitles) = 1
    /\ \E k \in 1..Len(parser.original_content) :
            FileLine(k) # <<>> /\ Blank(k)
    /\ \E k \in 1..Len(parser.original_content) :
            /\ isdigit(FileLine(k))
            /\ k = Len(parser.original_content) \/ Blank(k + 1)

\* the lines read since the caption before k was appended, up to the end of
\* the block of caption k
OwnLines(k) ==
    (IF k = 1 THEN 1 ELSE parser.appended_at[k - 1] + 2)..parser.appended_at[k]

\* C27: the start_time and end_time of every caption come from a timestamp
\* line of its own block: a line with one arrow, read after the caption
\* before it was appended; otherwise the caption has no times, and never
\* those of an earlier caption.
C27_TimesFromOwnBlock ==
    \A k \in 1..Len(parser.subtitles) :
        LET usable == {j \in OwnLines(k) : Len(split_arrow(FileLine(j))) = 2}
            caption == parser.subtitles[k]
        IN \/ caption.start_time = <<>> /\ caption.end_time = <<>>
           \/ \E j \in usable :
                    /\ caption.start_time = strip(split_arrow(FileLine(j))[1])
                    /\ caption.end_time = strip(split_arrow(FileLine(j))[2])

---------------------------------------------------------------------------
(* Properties of process_interactively and apply_changes *)

\* apply_changes has written the output file
Written == session.state = "returned" /\ session.file.path = "written"

\* C21: whenever apply_changes writes the output file, the captions written
\* carry the numbers 1, 2, ..., n in file order, n being the number of
\* captions written, whatever the numbers parsed and whatever was changed or
\* removed.
C21_WrittenNumberedSequentially ==
    Written =>
        \A k \in 1..Len(session.file.blocks) : session.file.blocks[k].number = k

\* two captions written though three were parsed, the first numbered 2, one
\* of them changed and one removed
C21_Witness ==
    /\ Written
    /\ Len(session.file.blocks) = 2
    /\ Len(session.parsed) = 3
    /\ session.parsed[1].number = 2
    /\ session.changes_made # <<>>
    /\ session.subtitles_to_remove # <<>>

\* the place in self.subtitles of the caption that the object at address a
\* stands for: the caption itself, or the first of the pair it was recorded in
origin(a) ==
    IF a \in 1..Len(session.subtitles) THEN a
    ELSE LET recorded == CHOOSE k \in 1..Len(session.changes_made) :
                            session.changes_made[k][2] = a
         IN session.changes_made[recorded][1]

\* the places in the written file of the caption parsed k-th
BlocksOf(k) ==
    {j \in 1..Len(session.final_subtitles) :
        origin(session.final_subtitles[j]) = k}

\* the text clean_subtitle gives for a caption as it was parsed
CleanedTextOf(caption) ==
    LET made == new_object(EmptyHeap, caption)
        r == clean_subtitle(made.heap, made.addr)
    IN r.heap.subtitles[r.addr].text

\* the caption parsed k-th is written once, with this text and its own times
WrittenAs(k, text) ==
    \E j \in 1..Len(session.file.blocks) :
        /\ BlocksOf(k) = {j}
        /\ session.file.blocks[j].text = text
        /\ session.file.blocks[j].start_time = session.parsed[k].start_time
        /\ session.file.blocks[j].end_time = session.parsed[k].end_time

\* C22: for each caption shown to the user the decision fixes what the written
\* file holds for it: accept writes the cleaned text, or nothing when the
\* cleaned text is empty; remove writes nothing; a manual edit that is not
\* empty writes the text entered; keep, an invalid option and an empty edit
\* write the original text; the times are those parsed, in every case.
C22_DecisionDeterminesDisposition ==
    Written =>
        \A k \in 1..Len(session.parsed) :
            LET decision == session.choices[k]
                cleaned_as == CleanedTextOf(session.parsed[k])
            IN decision.shown =>
                CASE decision.choice = <<"1">> ->
                        IF strip(cleaned_as) = <<>> THEN BlocksOf(k) = {}
                        ELSE WrittenAs(k, cleaned_as)
                  [] decision.choice = <<"3">> -> BlocksOf(k) = {}
                  [] decision.choice = <<"4">> /\ decision.new_text # <<>> ->
                        WrittenAs(k, decision.new_text)
                  [] OTHER -> WrittenAs(k, session.parsed[k].text)

\* the places in self.subtitles of the captions not marked for removal
NotMarked ==
    {k \in 1..Len(session.parsed) :
        \A r \in 1..Len(session.subtitles_to_remove) :
            session.subtitles_to_remove[r] # k - 1}

\* C28: whenever apply_changes writes the output file, every parsed caption
\* not marked for removal is written exactly once, no other caption is
\* written, and the captions written stand in the order they were parsed in.
C28_KeptWrittenOnceInOrder ==
    Written =>
        /\ \A k \in 1..Len(session.parsed) :
                Cardinality(BlocksOf(k)) = IF k \in NotMarked THEN 1 ELSE 0
        /\ \A i, j \in 1..Len(session.final_subtitles) :
                i < j => origin(session.final_subtitles[i])
                            < origin(session.final_subtitles[j])

\* C23: when writing the output in apply_changes fails, process_interactively
\* does not report success to its caller.
C23_WriteFailureNotReportedAsSuccess ==
    (session.state = "returned" /\ session.error) => session.result # "True"

\* the user chose exit at some caption
ExitChosen ==
    \E k \in 1..Len(session.choices) :
        session.choices[k].shown /\ session.choices[k].choice = <<"0">>

\* C29: the file is rewritten, and the backup made, only when the end of the
\* caption list was reached without exit and a correction, an edit or a
\* removal was recorded; exit returns False and leaves the file untouched,
\* whatever was accepted before; a run in which nothing was recorded returns
\* False and leaves the file untouched.
C29_RewrittenOnlyAtEndWithRecords ==
    /\ session.file # Untouched =>
            /\ session.i = Len(session.subtitles)
            /\ ~ExitChosen
            /\ Recorded(session)
    /\ ExitChosen =>
            /\ session.state = "returned"
            /\ session.result = "False"
            /\ session.file = Untouched
    /\ (session.state = "returned" /\ ~Recorded(session)) =>
            /\ session.result = "False"
            /\ session.file = Untouched

\* exit at the third caption, after a correction accepted and a removal
C29_Witness ==
    /\ session.state = "returned"
    /\ ExitChosen
    /\ Len(session.choices) = 3
    /\ session.changes_made # <<>>
    /\ session.subtitles_to_remove # <<>>

\* C30: no caption written by apply_changes has empty or whitespace-only
\* text: a caption whose cleaned text is empty is removed or written with its
\* original text.
C30_NoBlankTextWritten ==
    Written =>
        \A j \in 1..Len(session.file.blocks) :
            strip(session.file.blocks[j].text) # <<>>

\* a file written after a caption that cleans to nothing was kept and
\* another one was accepted away
C30_Witness ==
    /\ Written
    /\ \E k \in 1..Len(session.parsed) :
            /\ strip(CleanedTextOf(session.parsed[k])) = <<>>
            /\ session.choices[k].choice = <<"2">>
            /\ BlocksOf(k) # {}
    /\ \E k \in 1..Len(session.parsed) :
            /\ strip(CleanedTextOf(session.parsed[k])) = <<>>
            /\ session.choices[k].choice = <<"1">>
            /\ BlocksOf(k) = {}

---------------------------------------------------------------------------
(* Properties of the stream selection *)

\* the stream listed k-th is English
EnglishStream(k) ==
    /\ unit.streams[k].language # None
    /\ lower(unit.streams[k].language[1]) = <<"e", "n", "g">>

\* the title of the stream listed k-th says forced
ForcedByTitle(k) ==
    /\ unit.streams[k].title # None
    /\ contains(lower(unit.streams[k].title[1]), <<"f", "o", "r", "c", "e", "d">>)

\* the rank of the type of the stream listed k-th: normal, hi/sdh, cc
TypeRank(k) ==
    LET by_title == IF unit.streams[k].title = None THEN "normal"
                    ELSE type_of_title(lower(unit.streams[k].title[1]))
    IN IF by_title = "normal" /\ unit.streams[k].hearing_impaired = 1 THEN 1
       ELSE type_priority(by_title)

\* the English streams forced neither by disposition nor by title
CompleteEnglish ==
    {k \in 1..Len(unit.streams) :
        EnglishStream(k) /\ unit.streams[k].forced = 0 /\ ~ForcedByTitle(k)}

\* C24: find_complete_english_subtitle returns None when no English stream
\* is left after the forced ones, by disposition or by title, are set aside;
\* otherwise it returns the index of the first of the streams left whose
\* type rank is the least among them.
C24_LeastPollutedNeverForced ==
    unit.fn = "find_complete_english_subtitle" =>
        IF CompleteEnglish = {} THEN unit.out = None
        ELSE LET least == Min({TypeRank(k) : k \in CompleteEnglish})
                 first == Min({k \in CompleteEnglish : TypeRank(k) = least})
             IN unit.out = Some(StreamIndexes[first])

\* C25: when the listing holds an English stream that is not forced,
\* find_english_subtitle returns the index of an English stream without the
\* forced disposition.
C25_NonForcedPreferred ==
    (unit.fn = "find_english_subtitle"
        /\ \E k \in 1..Len(unit.streams) :
                EnglishStream(k) /\ unit.streams[k].forced = 0 /\ ~ForcedByTitle(k))
    => \E k \in 1..Len(unit.streams) :
            /\ EnglishStream(k)
            /\ unit.streams[k].forced = 0
            /\ unit.out = Some(StreamIndexes[k])

====
